---- MODULE Spec2Model ----
(***************************************************************************)
(* Moving-average filters of src/mov_avg_filters.py.                       *)
(*                                                                         *)
(* A state is one call frame: the function being called (op), its scalar   *)
(* arguments (args), the memory holding the caller's arrays and the arrays *)
(* the function allocates (mem), and, once the call has run, how it ended  *)
(* (outcome), the buffer it returned (ret) and its value (result).         *)
(*                                                                         *)
(* Floating-point samples are modelled as exact non-negative rationals     *)
(* <<num, den>> in lowest terms, the missing marker NaN as <<0, 0>>.       *)
(* Python indices are 0-based: At(s, i) reads s[i].                        *)
(***************************************************************************)
EXTENDS Integers, Sequences, FiniteSets, TLC

VARIABLES op, args, mem, pc, outcome, ret, result, path

vars == <<op, args, mem, pc, outcome, ret, result, path>>

----------------------------------------------------------------------------
(* Bounds of the model. *)

\* longest series drawn for the sample-count and constant-rate filters
MaxLen == 5
\* longest series and timestamp axis drawn for the variable-rate filter
MaxAxis == 3
\* largest samples_before / samples_after drawn
MaxWin == 3
\* largest sampling frequency drawn
MaxFreq == 2
\* largest time window drawn, in ticks
MaxDur == 3
\* largest time window drawn for the variable-rate filter, in ticks
MaxGap == 1

----------------------------------------------------------------------------
(* Numbers. *)

Max(a, b) == IF a >= b THEN a ELSE b

Min(a, b) == IF a <= b THEN a ELSE b

Abs(a) == IF a < 0 THEN -a ELSE a

RECURSIVE GCD(_, _)
GCD(a, b) == IF b = 0 THEN a ELSE GCD(b, a % b)

NaN == <<0, 0>>

\* the float n/d, d > 0, n >= 0
Q(n, d) == LET g == GCD(n, d) IN <<n \div g, d \div g>>

isnan(v) == v = NaN

AddQ(v, w) == Q(v[1] * w[2] + w[1] * v[2], v[2] * w[2])

DivQ(v, k) == Q(v[1], v[2] * k)

\* the sequence f with its elements evaluated once (no change of value)
Tup(f) == SelectSeq(f, LAMBDA v : TRUE)

\* 0-based read s[i]
At(s, i) == s[i + 1]

\* 0-based write s[i] = v
Put(s, i, v) == [s EXCEPT ![i + 1] = v]

RECURSIVE Factorial(_)
Factorial(n) == IF n <= 1 THEN 1 ELSE n * Factorial(n - 1)

\* Ticks per time unit: time_units * freq is an integer number of
\* sample periods over Unit for every frequency drawn.
Unit == Factorial(MaxFreq)

\* int(): truncation toward zero of n/d, d > 0
IntTrunc(n, d) == IF n >= 0 THEN n \div d ELSE -((-n) \div d)

\* int(np.ceil(k/2))
CeilHalf(k) == (k + 1) \div 2

----------------------------------------------------------------------------
(* Python slices. *)

\* a slice bound k of a sequence of length n, as Python clamps it
SliceBound(k, n) == IF k < 0 THEN Max(k + n, 0) ELSE Min(k, n)

\* the indices of s[start:stop], ascending
SliceIndices(n, start, stop) ==
    LET lo == SliceBound(start, n)
        hi == SliceBound(stop, n)
    IN  [k \in 1..Max(hi - lo, 0) |-> lo + k - 1]

\* s[start:stop]
PySlice(s, start, stop) ==
    LET ix == SliceIndices(Len(s), start, stop)
    IN  Tup([k \in 1..Len(ix) |-> At(s, ix[k])])

\* s[start:stop] = v (a scalar, broadcast)
SliceFill(s, start, stop, v) ==
    LET lo == SliceBound(start, Len(s))
        hi == SliceBound(stop, Len(s))
    IN  Tup([k \in 1..Len(s) |->
                IF lo <= k - 1 /\ k - 1 < hi THEN v ELSE s[k]])

\* s[start:stop] = src (same length; numpy buffers an overlapping source)
SliceAssign(s, start, stop, src) ==
    LET lo == SliceBound(start, Len(s))
        hi == SliceBound(stop, Len(s))
    IN  Tup([k \in 1..Len(s) |->
                IF lo <= k - 1 /\ k - 1 < hi THEN src[k - lo] ELSE s[k]])

----------------------------------------------------------------------------
(* np.nanmean *)

RECURSIVE SumQ(_)
SumQ(s) == IF Len(s) = 0 THEN Q(0, 1) ELSE AddQ(Head(s), SumQ(Tail(s)))

NotNan(s) == SelectSeq(s, LAMBDA v : ~isnan(v))

\* mean with the NaN left out; NaN (and a warning) when nothing is left
nanmean(s) ==
    LET t == NotNan(s)
    IN  IF Len(t) = 0 THEN NaN ELSE DivQ(SumQ(t), Len(t))

----------------------------------------------------------------------------
(* Memory: the caller's arrays (y, x) and the arrays a call allocates.     *)

Buffers ==
    {"y", "x", "y_filt", "x_float", "timing_window", "arrayYarrays",
     "arrayYarrays_filt"}

CallerBuffers == {"y", "x"}

NoValue == [shape |-> <<>>, data |-> <<>>]

\* a rank-1 array as a returned value
Array1(s) == [shape |-> <<Len(s)>>, data |-> s]

\* range(0, stop, 1)
RangeUp(stop) == [k \in 1..Max(stop, 0) |-> k - 1]

\* range(start, stop, -1)
RangeDown(start, stop) == [k \in 1..Max(start - stop, 0) |-> start - k + 1]

\* ndarray_copy gone wrong: no copy, the name dst bound to src's storage
ndarray_alias(m, src, dst) == [mem |-> m, ref |-> src]

\* src.copy(): a fresh buffer dst holding src's values
ndarray_copy(m, src, dst) == [mem |-> [m EXCEPT ![dst] = m[src]], ref |-> dst]

----------------------------------------------------------------------------
(* mov_avg_loop *)

\* loop_window gone wrong: the slice's stop without its + 1
loop_window_short(y, i, samples_before, samples_after) ==
    PySlice(y, Max(i - samples_before, 0), Min(i + samples_after, Len(y)))

\* y[np.maximum(i-samples_before,0):np.minimum(i+samples_after,len(y))+1]
loop_window(y, i, samples_before, samples_after) ==
    PySlice(y, Max(i - samples_before, 0), Min(i + samples_after, Len(y)) + 1)

\* for i in ix: y_filt[i] = np.nanmean(window of y at i)
RECURSIVE mean_at_each(_, _, _, _, _, _)
mean_at_each(m, y, y_filt, samples_before, samples_after, ix) ==
    IF Len(ix) = 0 THEN m
    ELSE LET i == Head(ix)
             v == nanmean(loop_window(m[y], i, samples_before, samples_after))
         IN  mean_at_each([m EXCEPT ![y_filt] = Put(m[y_filt], i, v)],
                          y, y_filt, samples_before, samples_after, Tail(ix))

\* samples_after = -1 means samples_after = samples_before
resolve_after(samples_before, samples_after) ==
    IF samples_after = -1 THEN samples_before ELSE samples_after

mov_avg_loop(m, y, samples_before, samples_after) ==
    LET sa == resolve_after(samples_before, samples_after)
        c  == ndarray_copy(m, y, "y_filt")
        m2 == mean_at_each(c.mem, y, c.ref, samples_before, sa,
                           RangeUp(Len(m[y])))
    IN  [mem |-> m2, ret |-> c.ref, value |-> Array1(m2[c.ref]),
         outcome |-> "returned", path |-> <<"mov_avg_loop">>]

----------------------------------------------------------------------------
(* mov_avg_no_nan *)

\* the sample at position k of y extended by reflection about its edges
\* (d c b a | a b c d | d c b a), k any integer
reflect(y, k) ==
    LET n == Len(y)
        r == k % (2 * n)
    IN  IF r < n THEN At(y, r) ELSE At(y, 2 * n - 1 - r)

\* the samples under the box filter at output i: size \div 2 before i and
\* size - size \div 2 - 1 after it (origin = 0)
uniform_window(y, i, size) ==
    Tup([k \in 1..size |-> reflect(y, i - (size \div 2) + k - 1)])

\* scipy.ndimage.uniform_filter1d(y, size, origin = 0, mode = 'reflect'):
\* a running sum over the extended line, so a NaN once added stays in it
uniform_filter1d(y, size) ==
    Tup([k \in 1..Len(y) |->
        LET i    == k - 1
            seen == [j \in 1..(i + size) |-> reflect(y, j - 1 - (size \div 2))]
        IN  IF Len(NotNan(seen)) < Len(seen) THEN NaN
            ELSE DivQ(SumQ(uniform_window(y, i, size)), size)])

\* shift_of gone wrong: the half difference rounded down
shift_floor(samples_before, samples_after) ==
    (samples_after - samples_before) \div 2

\* int(np.ceil((samples_after-samples_before)/2))
shift_of(samples_before, samples_after) ==
    CeilHalf(samples_after - samples_before)

\* the realignment of the filtered array by shift, NaN where nothing moves in
translate(f, shift) ==
    IF shift > 0
    THEN SliceFill(SliceAssign(f, 0, -shift, PySlice(f, shift, Len(f))),
                   -shift, Len(f), NaN)
    ELSE IF shift < 0
    THEN SliceFill(SliceAssign(f, -shift, Len(f), PySlice(f, 0, shift)),
                   0, -shift, NaN)
    ELSE f

\* range(0, min(samples_before + abs(shift), len(y)), 1)
first_fixed(n, samples_before, shift) ==
    RangeUp(Min(samples_before + Abs(shift), n))

\* range(len(y)-1, max(0, len(y) - samples_after - abs(shift) - 1), -1)
last_fixed(n, samples_after, shift) ==
    RangeDown(n - 1, Max(0, n - samples_after - Abs(shift) - 1))

mov_avg_no_nan(m, y, samples_before, samples_after) ==
    LET sa    == resolve_after(samples_before, samples_after)
        size  == samples_before + sa + 1
        n     == Len(m[y])
        shift == shift_of(samples_before, sa)
        m1 == [m EXCEPT !["y_filt"] =
                  translate(uniform_filter1d(m[y], size), shift)]
        m2 == mean_at_each(m1, y, "y_filt", samples_before, sa,
                           first_fixed(n, samples_before, shift))
        m3 == mean_at_each(m2, y, "y_filt", samples_before, sa,
                           last_fixed(n, sa, shift))
    IN  IF size < 1
        THEN \* uniform_filter1d: "incorrect filter size"
             [mem |-> m, ret |-> "none", value |-> NoValue,
              outcome |-> "RuntimeError", path |-> <<"mov_avg_no_nan">>]
        ELSE [mem |-> m3, ret |-> "y_filt", value |-> Array1(m3["y_filt"]),
              outcome |-> "returned", path |-> <<"mov_avg_no_nan">>]

----------------------------------------------------------------------------
(* mov_avg *)

\* the truth value of np.isnan(y).any, a bound method that is never called:
\* an object, and so true whatever y holds
isnan_any_attr(y) == TRUE

mov_avg(m, y, samples_before, samples_after) ==
    LET r == IF isnan_any_attr(m[y])
             THEN mov_avg_loop(m, y, samples_before, -1)
             ELSE mov_avg_no_nan(m, y, samples_before, -1)
    IN  [r EXCEPT !.path = <<"mov_avg">> \o r.path]

----------------------------------------------------------------------------
(* mov_avg_time.  Durations are in ticks, Unit ticks to the time unit.     *)

mov_avg_time(m, y, freq, time_units_before, time_units_after) ==
    LET samples_before == IntTrunc(time_units_before * freq, Unit)
        samples_after  == IF time_units_after # -Unit
                          THEN IntTrunc(time_units_after * freq, Unit)
                          ELSE -1
        r == mov_avg(m, y, samples_before, samples_after)
    IN  [r EXCEPT !.path = <<"mov_avg_time">> \o r.path]

----------------------------------------------------------------------------
(* mov_avg_time_variable_freq.  A float timestamp t is <<t>>, NaN is <<>>. *)

TNaN == <<>>

\* t + d for a float timestamp t; NaN stays NaN
TPlus(t, d) == IF t = TNaN THEN TNaN ELSE <<t[1] + d>>

\* t < u and t > u for float timestamps; false when either is NaN
TLess(t, u) == t # TNaN /\ u # TNaN /\ t[1] < u[1]

TGreater(t, u) == TLess(u, t)

TLessEq(t, u) == t # TNaN /\ u # TNaN /\ t[1] <= u[1]

\* np.isscalar(iterable[0]): a list of samples, not a list of arrays
containsScalars(iterable) == iterable.kind = "scalars"

\* np.array(x).astype("float"): a new array of floats
astype_float(x) == Tup([k \in 1..Len(x) |-> <<x[k]>>])

\* timing_window[timing_window < bound] = np.nan
mask_below(tw, bound) ==
    Tup([k \in 1..Len(tw) |->
        IF TLess(tw[k], bound) THEN TNaN ELSE tw[k]])

\* mask_above gone wrong: the upper end of the window left out
mask_above_or_equal(tw, bound) ==
    Tup([k \in 1..Len(tw) |->
        IF TLessEq(bound, tw[k]) THEN TNaN ELSE tw[k]])

\* timing_window[timing_window > bound] = np.nan
mask_above(tw, bound) ==
    Tup([k \in 1..Len(tw) |->
        IF TGreater(tw[k], bound) THEN TNaN ELSE tw[k]])

\* np.argwhere(~np.isnan(timing_window)), ascending
argwhere_not_nan(tw) ==
    SelectSeq([k \in 1..Len(tw) |-> k - 1], LAMBDA j : At(tw, j) # TNaN)

\* np.squeeze(np.nanmean(arrayYarrays[:,indexes], axis = 1)), one per row
column_means(a, indexes) ==
    Tup([r \in 1..Len(a) |->
        nanmean([k \in 1..Len(indexes) |-> At(a[r], indexes[k])])])

\* arrayYarrays_filt[:,i] = col
put_column(a, i, col) == Tup([r \in 1..Len(a) |-> Put(a[r], i, col[r])])

\* the iterations i, i+1, ... of the loop over range(len(x)); an index past
\* the end of a row raises IndexError and ends the call
RECURSIVE window_loop(_, _, _, _, _)
window_loop(m, filt, i, time_units_before, time_units_after) ==
    IF i >= Len(m["x_float"]) THEN [mem |-> m, outcome |-> "returned"]
    ELSE LET this_moment == At(m["x_float"], i)
             c   == ndarray_copy(m, "x_float", "timing_window")
             tw  == mask_above(
                      mask_below(c.mem[c.ref],
                                 TPlus(this_moment, -time_units_before)),
                      TPlus(this_moment, time_units_after))
             m1  == [c.mem EXCEPT ![c.ref] = tw]
             indexes == argwhere_not_nan(tw)
             ny  == Len(m["arrayYarrays"][1])
         IN  IF (\E k \in 1..Len(indexes) : indexes[k] >= ny) \/ i >= ny
             THEN [mem |-> m1, outcome |-> "IndexError"]
             ELSE window_loop(
                    [m1 EXCEPT ![filt] =
                        put_column(m1[filt], i,
                                   column_means(m1["arrayYarrays"], indexes))],
                    filt, i + 1, time_units_before, time_units_after)

\* np.squeeze of a rank-2 array: every axis of length 1 is removed
squeeze(a) ==
    LET rows == Len(a)
        cols == Len(a[1])
    IN  [shape |-> SelectSeq(<<rows, cols>>, LAMBDA d : d # 1),
         data  |-> IF rows = 1 /\ cols = 1 THEN a[1][1]
                   ELSE IF rows = 1 THEN a[1]
                   ELSE IF cols = 1 THEN [r \in 1..rows |-> a[r][1]]
                   ELSE a]

Array2(a) == [shape |-> <<Len(a), Len(a[1])>>, data |-> a]

mov_avg_time_variable_freq(m, x, listYarrays, time_units_before, time_units_after) ==
    LET oneArrayFlag == containsScalars(listYarrays)
        rows == IF oneArrayFlag THEN <<listYarrays.items>>
                ELSE listYarrays.items
        after == IF time_units_after = -Unit THEN time_units_before
                 ELSE time_units_after
        m1 == [m EXCEPT !["x_float"] = astype_float(m[x]),
                        !["arrayYarrays"] = rows]
        c  == ndarray_copy(m1, "arrayYarrays", "arrayYarrays_filt")
        r  == window_loop(c.mem, c.ref, 0, time_units_before, after)
    IN  IF r.outcome # "returned"
        THEN [mem |-> r.mem, ret |-> "none", value |-> NoValue,
              outcome |-> r.outcome, path |-> <<"mov_avg_time_variable_freq">>]
        ELSE [mem |-> r.mem, ret |-> c.ref,
              value |-> IF oneArrayFlag THEN squeeze(r.mem[c.ref])
                        ELSE Array2(r.mem[c.ref]),
              outcome |-> "returned",
              path |-> <<"mov_avg_time_variable_freq">>]

----------------------------------------------------------------------------
(* The calls drawn. *)

\* the sample values drawn: missing, 1, 2
SampleVals == {NaN, Q(1, 1), Q(2, 1)}

\* the timestamps drawn, in ticks: repeats, any order, a gap
Times == {0, 1, 3}

SeqsUpTo(S, n) == UNION {[1..k -> S] : k \in 1..n}

Reverse(s) == [k \in 1..Len(s) |-> s[Len(s) + 1 - k]]

NoList == [kind |-> "none", items |-> <<>>]

Args(b, a, f, tb, ta, l) ==
    [samples_before |-> b, samples_after |-> a, freq |-> f,
     time_units_before |-> tb, time_units_after |-> ta, listYarrays |-> l]

InitMem(y, x) ==
    [b \in Buffers |-> IF b = "y" THEN y ELSE IF b = "x" THEN x ELSE <<>>]

Frame(o, a, y, x) ==
    /\ op = o
    /\ args = a
    /\ mem = InitMem(y, x)
    /\ pc = "call"
    /\ outcome = "none"
    /\ ret = "none"
    /\ result = NoValue
    /\ path = <<>>

\* the ways a caller hands the series y to the variable-rate engine
Lists(y) ==
    {[kind |-> "scalars", items |-> y],
     [kind |-> "arrays", items |-> <<y>>],
     [kind |-> "arrays", items |-> <<y, Reverse(y)>>]}

\* y=[1,NaN,3], window (1,1)
Scenario0Y == <<Q(1, 1), NaN, Q(3, 1)>>

\* y=[1,2,3,4,5], before=1, after=0
Scenario1Y == <<Q(1, 1), Q(2, 1), Q(3, 1), Q(4, 1), Q(5, 1)>>

\* x=[0,1,2,10,11] with time_before = time_after = 1, in ticks
Scenario2X == <<0, Unit, 2 * Unit, 10 * Unit, 11 * Unit>>

InitSamples ==
    \E o \in {"mov_avg", "mov_avg_loop", "mov_avg_no_nan"} :
        \/ \E y \in SeqsUpTo(SampleVals, MaxLen) :
           \E b \in -1..MaxWin, a \in -2..MaxWin :
               Frame(o, Args(b, a, 0, 0, 0, NoList), y, <<>>)
        \/ Frame(o, Args(1, 1, 0, 0, 0, NoList), Scenario0Y, <<>>)
        \/ Frame(o, Args(1, 0, 0, 0, 0, NoList), Scenario1Y, <<>>)

InitTime ==
    \E y \in SeqsUpTo(SampleVals, MaxLen) :
    \E f \in -1..MaxFreq, tb \in -1..MaxDur, ta \in {-Unit} \cup -1..MaxDur :
        Frame("mov_avg_time", Args(0, 0, f, tb, ta, NoList), y, <<>>)

InitVariable ==
    \/ \E x \in SeqsUpTo(Times, MaxAxis), y \in SeqsUpTo(SampleVals, MaxAxis) :
       \E l \in Lists(y), tb \in 0..MaxGap, ta \in {-Unit} \cup 0..MaxGap :
           /\ Abs(Len(x) - Len(y)) <= 1
           /\ Frame("mov_avg_time_variable_freq", Args(0, 0, 0, tb, ta, l), y, x)
    \/ \E l \in Lists(Scenario1Y) :
           Frame("mov_avg_time_variable_freq", Args(0, 0, 0, Unit, Unit, l),
                 Scenario1Y, Scenario2X)

Init == InitSamples \/ InitTime \/ InitVariable

----------------------------------------------------------------------------
(* The calls run. *)

Finish(r) ==
    /\ mem' = r.mem
    /\ ret' = r.ret
    /\ result' = r.value
    /\ outcome' = r.outcome
    /\ path' = r.path
    /\ pc' = "done"
    /\ UNCHANGED <<op, args>>

Call_mov_avg ==
    /\ pc = "call" /\ op = "mov_avg"
    /\ Finish(mov_avg(mem, "y", args.samples_before, args.samples_after))

Call_mov_avg_loop ==
    /\ pc = "call" /\ op = "mov_avg_loop"
    /\ Finish(mov_avg_loop(mem, "y", args.samples_before, args.samples_after))

Call_mov_avg_no_nan ==
    /\ pc = "call" /\ op = "mov_avg_no_nan"
    /\ Finish(mov_avg_no_nan(mem, "y", args.samples_before, args.samples_after))

Call_mov_avg_time ==
    /\ pc = "call" /\ op = "mov_avg_time"
    /\ Finish(mov_avg_time(mem, "y", args.freq, args.time_units_before,
                           args.time_units_after))

Call_mov_avg_time_variable_freq ==
    /\ pc = "call" /\ op = "mov_avg_time_variable_freq"
    /\ Finish(mov_avg_time_variable_freq(mem, "x", args.listYarrays,
                  args.time_units_before, args.time_units_after))

Next ==
    \/ Call_mov_avg
    \/ Call_mov_avg_loop
    \/ Call_mov_avg_no_nan
    \/ Call_mov_avg_time
    \/ Call_mov_avg_time_variable_freq

Spec == Init /\ [][Next]_vars

----------------------------------------------------------------------------
(* What the results are compared with. *)

hasNan(y) == \E k \in 1..Len(y) : isnan(y[k])

RECURSIVE SumOver(_, _)
SumOver(y, J) ==
    IF J = {} THEN Q(0, 1)
    ELSE LET j == CHOOSE k \in J : TRUE
         IN  AddQ(At(y, j), SumOver(y, J \ {j}))

\* the mean of the non-missing samples of y at the indices J, NaN if none
MeanOver(y, J) ==
    LET K == {j \in J : ~isnan(At(y, j))}
    IN  IF K = {} THEN NaN ELSE DivQ(SumOver(y, K), Cardinality(K))

\* the indices max(i-b,0) .. min(i+a,n-1)
Clipped(n, i, b, a) == Max(i - b, 0)..Min(i + a, n - 1)

\* the clipped windowed mean of y at every index
WindowMeans(y, b, a) ==
    [k \in 1..Len(y) |-> MeanOver(y, Clipped(Len(y), k - 1, b, a))]

\* the indices j with x[i]-tb <= x[j] <= x[i]+ta
InTime(x, i, tb, ta) ==
    {j \in 0..(Len(x) - 1) :
        At(x, i) - tb <= At(x, j) /\ At(x, j) <= At(x, i) + ta}

\* the series a caller passes, one or a batch
SeriesOf(l) == IF l.kind = "scalars" THEN <<l.items>> ELSE l.items

\* the value a returned array holds for series r at index i
ValueAt(v, r, i) ==
    IF Len(v.shape) = 2 THEN At(v.data[r], i)
    ELSE IF Len(v.shape) = 1 THEN At(v.data, i)
    ELSE v.data

\* timestamps i/freq, in ticks
UniformAxis(n, freq) == [k \in 1..n |-> ((k - 1) * Unit) \div freq]

\* a step that runs the call of function o
Runs(o) == pc = "call" /\ op = o /\ pc' = "done"

GoodWindow(a) == a.samples_before >= 0 /\ a.samples_after >= 0

----------------------------------------------------------------------------
(* C1: mov_avg(y, b, a) with b, a >= 0 returns at every index the mean of  *)
(* the non-missing samples of y[max(i-b,0) .. min(i+a,n-1)], and           *)
(* mov_avg_time with time_units_after other than -1 uses                   *)
(* int(time_units_after*freq) samples after the current one.               *)
C1_SamplesAfterDeterminesWindow ==
    [][/\ Runs("mov_avg") /\ GoodWindow(args)
          => /\ outcome' = "returned"
             /\ result' = Array1(WindowMeans(mem["y"], args.samples_before,
                                             args.samples_after))
       /\ Runs("mov_avg_time") /\ args.freq > 0
            /\ args.time_units_before >= 0 /\ args.time_units_after >= 0
          => /\ outcome' = "returned"
             /\ result' = Array1(WindowMeans(mem["y"],
                    IntTrunc(args.time_units_before * args.freq, Unit),
                    IntTrunc(args.time_units_after * args.freq, Unit)))]_vars

C3_FastEqualsExact ==
    [][Runs("mov_avg_no_nan") /\ ~hasNan(mem["y"])
         /\ args.samples_before >= 0 /\ args.samples_after >= -1
       => /\ outcome' = "returned"
          /\ result' = mov_avg_loop(mem, "y", args.samples_before,
                                    args.samples_after).value
          /\ ~hasNan(result'.data)]_vars

\* an asymmetric window that is realigned (shift # 0) and leaves an index
\* that neither refix loop recomputes, where the filter changed the sample
C3_Witness ==
    /\ pc = "done" /\ op = "mov_avg_no_nan" /\ outcome = "returned"
    /\ GoodWindow(args) /\ ~hasNan(mem["y"])
    /\ LET b == args.samples_before
           a == args.samples_after
           n == Len(mem["y"])
           shift == CeilHalf(a - b)
       IN  /\ shift # 0
           /\ \E i \in 0..(n - 1) :
                /\ b + Abs(shift) <= i
                /\ i < n - a - Abs(shift)
                /\ At(result.data, i) # At(mem["y"], i)

(* C4: mov_avg_time_variable_freq on an axis x and series of x's length,   *)
(* with time_units_before, time_units_after >= 0, returns for every        *)
(* series and index i the mean of the non-missing y[j] over the j with     *)
(* x[i]-tb <= x[j] <= x[i]+ta, missing when there is none;                 *)
(* x=[0,1,2,10,11], y=[1,2,3,4,5], tb=ta=1 gives 1.5 at 0 and 4.5 at 3.    *)
C4_VariableRateWindow ==
    [][Runs("mov_avg_time_variable_freq") /\ Len(mem["x"]) = Len(mem["y"])
         /\ args.time_units_before >= 0 /\ args.time_units_after >= 0
       => LET x  == mem["x"]
              ys == SeriesOf(args.listYarrays)
          IN  /\ outcome' = "returned"
              /\ \A r \in 1..Len(ys), i \in 0..(Len(x) - 1) :
                    ValueAt(result', r, i) =
                      MeanOver(ys[r], InTime(x, i, args.time_units_before,
                                             args.time_units_after))
              /\ x = Scenario2X /\ ys[1] = Scenario1Y
                   /\ args.time_units_before = Unit
                   /\ args.time_units_after = Unit
                 => /\ ValueAt(result', 1, 0) = Q(3, 2)
                    /\ ValueAt(result', 1, 3) = Q(9, 2)]_vars

\* an axis that is not sorted, a series with a missing sample: one output
\* is missing and another is a mean the series does not hold
C4_Witness ==
    /\ pc = "done" /\ op = "mov_avg_time_variable_freq"
    /\ outcome = "returned" /\ args.listYarrays.kind = "scalars"
    /\ args.time_units_before >= 0 /\ args.time_units_after >= 0
    /\ Len(mem["x"]) = 3 /\ mem["x"][1] > mem["x"][3]
    /\ hasNan(result.data)
    /\ \E k \in 1..3 : ~isnan(result.data[k]) /\ result.data[k][2] # 1

(* C5: for timestamps x[i] = i/freq, freq > 0, and a time window with both *)
(* sides >= 0, mov_avg_time(y, freq, tb, ta) returns at every index the    *)
(* value mov_avg_time_variable_freq(x, y, tb, ta) returns.                 *)
C5_VariableEqualsConstantRate ==
    [][Runs("mov_avg_time") /\ args.freq > 0
         /\ args.time_units_before >= 0 /\ args.time_units_after >= 0
       => LET y == mem["y"]
              v == mov_avg_time_variable_freq(
                     InitMem(y, UniformAxis(Len(y), args.freq)), "x",
                     [kind |-> "scalars", items |-> y],
                     args.time_units_before, args.time_units_after)
          IN  /\ outcome' = "returned"
              /\ v.outcome = "returned"
              /\ \A i \in 0..(Len(y) - 1) :
                    At(result'.data, i) = ValueAt(v.value, 1, i)]_vars

(* C6: mov_avg_time_variable_freq returns, for a single series of length   *)
(* n >= 1, a rank-1 array of length n, and for a batch of m >= 1 series of *)
(* length n, an m by n array.                                              *)
C6_ShapePreserved ==
    [][Runs("mov_avg_time_variable_freq") /\ Len(mem["x"]) = Len(mem["y"])
       => /\ outcome' = "returned"
          /\ result'.shape =
               IF args.listYarrays.kind = "scalars" THEN <<Len(mem["y"])>>
               ELSE <<Len(args.listYarrays.items), Len(mem["y"])>>]_vars

(* C7: a call with samples_before < 0, with samples_after neither -1 nor   *)
(* >= 0, with freq <= 0 or with time_units_before < 0 ends in an error and *)
(* returns no array.                                                       *)
C7_MalformedRejected ==
    [][/\ (Runs("mov_avg") \/ Runs("mov_avg_loop") \/ Runs("mov_avg_no_nan"))
            /\ (args.samples_before < 0 \/ args.samples_after < -1)
          => outcome' # "returned" /\ ret' = "none"
       /\ Runs("mov_avg_time")
            /\ (args.freq <= 0 \/ args.time_units_before < 0)
          => outcome' # "returned" /\ ret' = "none"]_vars

(* C8: mov_avg_time_variable_freq on an axis and a series of different     *)
(* lengths ends in an error and returns no array.                          *)
C8_MismatchRejected ==
    [][Runs("mov_avg_time_variable_freq") /\ Len(mem["x"]) # Len(mem["y"])
       => outcome' # "returned" /\ ret' = "none"]_vars

(* C9: no call changes the caller's series y or timestamp axis x, and the  *)
(* array returned is not one of the caller's.                              *)
C9_InputsNotMutated ==
    [][pc = "call" /\ pc' = "done"
       => /\ mem'["y"] = mem["y"]
          /\ mem'["x"] = mem["x"]
          /\ ret' \notin CallerBuffers]_vars

\* a call has returned a buffer of its own that differs from the series
C9_Witness ==
    /\ pc = "done" /\ outcome = "returned"
    /\ ret = "y_filt" /\ mem["y_filt"] # mem["y"]

(* C10: mov_avg calls mov_avg_loop if y holds a missing value and          *)
(* mov_avg_no_nan if it holds none.                                        *)
C10_Dispatch ==
    [][Runs("mov_avg")
       => path' = IF hasNan(mem["y"]) THEN <<"mov_avg", "mov_avg_loop">>
                  ELSE <<"mov_avg", "mov_avg_no_nan">>]_vars

====
